---- MODULE Spec2Model ----
(***************************************************************************)
(* Model of the snapshot Uploader (src/snapshot/upload.go).                *)
(*                                                                         *)
(* The main routine runs Upload: it walks the source directory tree with   *)
(* uploadDirInternal (one frame of `stack` per nesting level), prepares    *)
(* the work items of each directory, launches a pool of workers fed by an  *)
(* unbuffered channel, and reads the per-item result channels in order.    *)
(* Cancel() may be called by another thread at any moment.                 *)
(*                                                                         *)
(* Names are naturals, a relative path is the sequence of the names from   *)
(* the root, time is a natural number.  The object store is taken to be    *)
(* fault free (WriteEntry, Finalize, Result, Flush and Readdir succeed).   *)
(***************************************************************************)
EXTENDS Integers, Sequences, FiniteSets, TLC

VARIABLES
    source,              \* the fs.Entry passed to Upload
    ParallelUploads,     \* Uploader.ParallelUploads
    IgnoreFileErrors,    \* Uploader.IgnoreFileErrors
    ForceHashPercentage, \* Uploader.ForceHashPercentage
    MaxUploadBytes,      \* Uploader.MaxUploadBytes
    cancelled,           \* Uploader.cancelled (int32, 0 or 1)
    stats,               \* Uploader.stats
    hashCacheCutoff,     \* Uploader.hashCacheCutoff
    cacheReader,         \* Uploader.cacheReader: [entries, pos]
    cacheWriter,         \* Uploader.cacheWriter over the HASHCACHE object writer
    writtenBytes,        \* repo.Blocks.Stats().WrittenBytes
    pc,                  \* position of the main routine
    stack,               \* uploadDirInternal activations, innermost first
    ret,                 \* (oid, err) the outermost uploadDirInternal returned to uploadDir
    mainCopied,          \* copy-loop progress of uploadFile on the main routine
    pool,                \* feeder, workers and result channels of launchWorkItems
    s,                   \* the Manifest under construction in Upload
    old,                 \* the old manifest passed to Upload
    result,              \* what the last Upload returned
    uploads,             \* number of Upload calls made
    store,               \* the blobs of the backing store (the data map of setupTest)
    blocks,              \* repo.Blocks: in-memory pack index, its dirty entries, the open pack
    writer,              \* the object writer in use (repo.Objects.NewWriter), or NoWriter
    objects,             \* the objects written so far: data given and object ID returned
    opened,              \* what the last repo.Objects.Open returned
    compaction,          \* the CompactIndexes call in progress: the input index blobs to delete
    ops                  \* the last two calls among Flush, reopen and CompactIndexes

vars == <<source, ParallelUploads, IgnoreFileErrors, ForceHashPercentage,
          MaxUploadBytes, cancelled, stats, hashCacheCutoff, cacheReader,
          cacheWriter, writtenBytes, pc, stack, ret, mainCopied, pool, s, old,
          result, uploads, store, blocks, writer, objects, opened, compaction,
          ops>>

\* the repository under the Uploader
repoVars == <<store, blocks, writer, objects, opened, compaction, ops>>

\* the Uploader and the upload in progress
uploaderVars == <<source, ParallelUploads, IgnoreFileErrors, ForceHashPercentage,
                  MaxUploadBytes, cancelled, stats, hashCacheCutoff, cacheReader,
                  cacheWriter, writtenBytes, pc, stack, ret, mainCopied, pool, s, old,
                  result, uploads>>

----------------------------------------------------------------------------
(* Bounds of the model *)

\* longest root directory listing
MaxEntries == 2
\* longest listing of a subdirectory
MaxSubEntries == MaxEntries - 1
\* largest configured ParallelUploads
MaxParallel == MaxEntries
\* number of Upload calls on one Uploader
MaxUploads == 2
\* the MaxUploadBytes tried besides 0 (unlimited)
ByteLimit == 1
\* MaxBlockSize of the repository (400 in setupTest), in bytes
MaxBlockSize == 2
\* longest object written, in bytes
MaxDataLen == 5
\* number of objects written to one store
MaxObjects == 2
\* number of chunks at which the pack builder flushes the open pack
PackTarget == 3

(* Program constants *)

\* NewUploader: HashCacheMinAge = 1 * time.Hour (one unit of time)
HashCacheMinAge == 1
\* time.Now() at the Upload calls
Now == HashCacheMinAge + 2
\* launchWorkItems: worker count used when ParallelUploads is 0
DefaultWorkerCount == 2
\* rand.Intn(100) and the range of ForceHashPercentage
RollRange == 100

NullID == <<"null">>
NoErr == "nil"
errCancelled == "cancelled"

----------------------------------------------------------------------------
(* Filesystem entries *)

CutoffTime == Now - HashCacheMinAge
OldTime == CutoffTime - 1

Entry(n, k, m, sz, inc, flt, ch) ==
    [name |-> n, kind |-> k, mtime |-> m, size |-> sz, incl |-> inc,
     fault |-> flt, children |-> ch]

\* entries a subdirectory may hold, by name
SubCandidates ==
    { Entry(1, "file", OldTime, 1, TRUE, "none", <<>>),
      Entry(2, "file", OldTime, 2, FALSE, "none", <<>>) }

\* non-directory entries the root may hold, by name
RootFileCandidates ==
    { Entry(2, "file", OldTime, 1, TRUE, "none", <<>>),
      Entry(1, "file", CutoffTime, 1, TRUE, "none", <<>>),
      Entry(4, "file", OldTime, 1, TRUE, "read", <<>>),
      Entry(5, "file", OldTime, 2, FALSE, "none", <<>>),
      Entry(6, "symlink", OldTime, 1, TRUE, "none", <<>>),
      Entry(7, "other", OldTime, 1, TRUE, "none", <<>>) }

\* listings sorted by name, at most n entries drawn from the set c
Listings(c, n) ==
    { l \in UNION { [1..k -> c] : k \in 0..n } :
        \A i \in DOMAIN l : \A j \in DOMAIN l : i < j => l[i].name < l[j].name }

\* the subdirectory's name sorts between the names of the files of the root
RootCandidates ==
    { Entry(3, "dir", OldTime, 0, TRUE, "none", l) : l \in Listings(SubCandidates, MaxSubEntries) }
    \cup RootFileCandidates

Sources ==
    { Entry(0, "dir", OldTime, 0, TRUE, "none", l) : l \in Listings(RootCandidates, MaxEntries) }
    \cup { Entry(0, "file", OldTime, 1, TRUE, "none", <<>>),
           Entry(0, "symlink", OldTime, 1, TRUE, "none", <<>>) }

----------------------------------------------------------------------------
(* Metadata hash, object IDs, directory entries *)

KindCode(k) ==
    CASE k = "file" -> 1 [] k = "symlink" -> 2 [] k = "dir" -> 3 [] OTHER -> 4

\* metadataHash: FNV-64a over name, mtime, mode, size (uid and gid do not vary);
\* distinct metadata give distinct, non-zero hashes
metadataHash(e) ==
    1 + e.name + 10 * e.mtime + 100 * e.size + 1000 * KindCode(e.kind)

\* the ID writer.Result() gives for the content of a file or symlink
ContentID(path) == <<"D", path>>

\* newDirEntry: the entry's metadata with the object ID
newDirEntry(e, oid) ==
    [name |-> e.name, kind |-> e.kind, mtime |-> e.mtime, size |-> e.size, oid |-> oid]

\* the ID writer.Result() gives for a finalized directory listing
DirID(dw) == <<"DIR", dw>>

\* the ID mw.Result() gives for the hash-cache object
HashCacheID(w) == <<"HC", w.entries, w.finalized>>

NoResult == [err |-> "none", de |-> <<>>, hash |-> 0]

ErrResult(e) == [err |-> e, de |-> <<>>, hash |-> 0]

----------------------------------------------------------------------------
(* Cancellation *)

\* cancelReason
cancelReasonGE(c, mub, wb) ==
    IF c # 0 THEN "cancelled"
    ELSE IF mub > 0 /\ wb >= mub THEN "limit reached"
    ELSE ""

cancelReason(c, mub, wb) ==
    IF c # 0 THEN "cancelled"
    ELSE IF mub > 0 /\ wb > mub THEN "limit reached"
    ELSE ""

\* IsCancelled
IsCancelled == cancelReason(cancelled, MaxUploadBytes, writtenBytes) # ""

----------------------------------------------------------------------------
(* Hash cache reader and writer *)

EmptyReader == [entries |-> <<>>, pos |-> 1]

NewCacheWriter == [entries |-> <<>>, copied |-> 0, finalized |-> FALSE]

\* hashcache.Open on the object the old manifest names
OpenHashCache(m) ==
    IF m.kind = "manifest" /\ m.HashCacheID # NullID
    THEN [entries |-> m.HashCacheID[2], pos |-> 1]
    ELSE EmptyReader

\* index of the entry for the path, 0 when there is none
FindIndex(r, path) ==
    IF \E i \in DOMAIN r.entries : r.entries[i].name = path
    THEN CHOOSE i \in DOMAIN r.entries : r.entries[i].name = path
    ELSE 0

\* Reader.FindEntry: the entry for the path (<<>> for nil)
FindEntry(r, path) ==
    IF FindIndex(r, path) = 0 THEN <<>> ELSE <<r.entries[FindIndex(r, path)]>>

\* the reader after FindEntry: entries up to the one found are consumed
AfterFind(r, path) ==
    IF FindIndex(r, path) >= r.pos THEN [r EXCEPT !.pos = FindIndex(r, path) + 1] ELSE r

\* Reader.CopyTo: the un-consumed entries are appended to the writer
CopyTo(r, w) ==
    [w EXCEPT !.entries = @ \o SubSeq(r.entries, r.pos, Len(r.entries)),
              !.copied = Len(r.entries) + 1 - r.pos]

\* Writer.WriteEntry
WriteCacheEntry(w, path, h, oid) ==
    [w EXCEPT !.entries = Append(@, [name |-> path, hash |-> h, oid |-> oid])]

\* maybeIgnoreHashCacheEntry with the value rand.Intn(100) returned
maybeIgnoreHashCacheEntryLE(roll, pct, e) == IF roll <= pct THEN <<>> ELSE e

maybeIgnoreHashCacheEntry(roll, pct, e) == IF roll < pct THEN <<>> ELSE e

\* time.Time.Before
BeforeOrEqual(t, cutoff) == t <= cutoff

Before(t, cutoff) == t < cutoff

----------------------------------------------------------------------------
(* Statistics, work items, directory frames *)

ZeroStats ==
    [TotalDirectoryCount |-> 0, TotalFileCount |-> 0, TotalFileSize |-> 0,
     ExcludedFileCount |-> 0, ExcludedTotalFileSize |-> 0,
     CachedFiles |-> 0, NonCachedFiles |-> 0, ReadErrors |-> 0]

\* foreachEntryUnlessCancelled: an entry FilesPolicy rejects
CountExcluded(st, e) ==
    [st EXCEPT !.ExcludedFileCount = @ + 1, !.ExcludedTotalFileSize = @ + e.size]

\* values of rand.Intn(100) that are tried: the ends of the range and the two
\* values around the configured percentage
RollValues == {0, ForceHashPercentage - 1, ForceHashPercentage, RollRange - 1} \cap (0 .. RollRange - 1)

NoRet == [oid |-> NullID, err |-> "none"]

NewFrameNoSubdirs(path, entries) ==
    [path |-> path, entries |-> entries, phase |-> "progress", idx |-> 1,
     dw |-> <<>>, items |-> <<>>, next |-> 1]

NewFrame(path, entries) ==
    [path |-> path, entries |-> entries, phase |-> "subdirs", idx |-> 1,
     dw |-> <<>>, items |-> <<>>, next |-> 1]

NextPhase(ph) ==
    CASE ph = "subdirs" -> "progress" [] ph = "progress" -> "prepare" [] OTHER -> "launch"

\* a loop over the entries that has reached the end of the listing gives way to
\* the next pass of uploadDirInternal
RECURSIVE Settle(_)
Settle(f) ==
    IF f.phase \in {"subdirs", "progress", "prepare"} /\ f.idx > Len(f.entries)
    THEN Settle([f EXCEPT !.phase = NextPhase(f.phase), !.idx = 1])
    ELSE f

Advance(f) == Settle([f EXCEPT !.idx = @ + 1])

\* the innermost uploadDirInternal returns (oid, err) to processSubdirectories of
\* its parent, or to uploadDir when it is the outermost
RECURSIVE Return(_, _, _)
ReturnWrapped(stk, oid, err) ==
    IF Len(stk) = 1
    THEN [stack |-> <<>>, ret |-> [oid |-> oid, err |-> err]]
    ELSE LET parent == stk[2]
             e == parent.entries[parent.idx]
         IN  IF err # NoErr
             THEN Return(Tail(stk), NullID, "unable to process directory")
             ELSE [stack |-> <<Advance([parent EXCEPT !.dw = Append(@, newDirEntry(e, oid))])>>
                                \o Tail(Tail(stk)),
                   ret |-> NoRet]

Return(stk, oid, err) ==
    IF Len(stk) = 1
    THEN [stack |-> <<>>, ret |-> [oid |-> oid, err |-> err]]
    ELSE LET parent == stk[2]
             e == parent.entries[parent.idx]
         IN  IF err = errCancelled
             THEN Return(Tail(stk), NullID, errCancelled)
             ELSE IF err # NoErr
             THEN Return(Tail(stk), NullID, "unable to process directory")
             ELSE [stack |-> <<Advance([parent EXCEPT !.dw = Append(@, newDirEntry(e, oid))])>>
                                \o Tail(Tail(stk)),
                   ret |-> NoRet]

\* what the closure of a work item returns when it is not cancelled
ItemResult(it) ==
    IF it.closure = "cached" THEN it.cachedResult
    ELSE IF it.entry.fault # "none" THEN ErrResult("read error")
    ELSE [err |-> NoErr,
          de |-> <<newDirEntry(it.entry, ContentID(it.path))>>,
          hash |-> metadataHash(it.entry)]

\* launchWorkItems: the number of workers
WorkerCountNoDefault(n) == n

WorkerCount(n) == IF n = 0 THEN DefaultWorkerCount ELSE n

\* the counter WrittenBytes after n more bytes; it is only ever compared with
\* MaxUploadBytes, so it is not counted beyond MaxUploadBytes + 1
AddWritten(wb, n) ==
    IF wb + n > MaxUploadBytes + 1 THEN MaxUploadBytes + 1 ELSE wb + n

EmptyPool == [items |-> <<>>, feedNext |-> 1, results |-> <<>>, workers |-> <<>>]

IdleWorker == [st |-> "idle", item |-> 0, copied |-> 0]

NewPool(items, n) ==
    [items |-> items, feedNext |-> 1,
     results |-> [i \in 1..Len(items) |-> NoResult],
     workers |-> [w \in 1..n |-> IdleWorker]]

PoolQuiet == \A w \in DOMAIN pool.workers : pool.workers[w].st = "exited"

\* processUploadWorkItems: the result channel the main routine reads next
AnyReadyResultChan(next, results) ==
    IF \E i \in DOMAIN results : i >= next /\ results[i].err # "none"
    THEN CHOOSE i \in DOMAIN results : /\ i >= next /\ results[i].err # "none"
                                       /\ \A j \in DOMAIN results : (j >= next /\ results[j].err # "none") => j <= i
    ELSE next

ResultChanToRead(next, results) == next

\* Upload: the case of the type switch the source takes
SourceCaseWithSymlink(e) ==
    CASE e.kind = "dir" -> "dir" [] e.kind \in {"file", "symlink"} -> "file" [] OTHER -> "unsupported"

SourceCase(e) ==
    CASE e.kind = "dir" -> "dir" [] e.kind = "file" -> "file" [] OTHER -> "unsupported"

----------------------------------------------------------------------------
(* Repository: chunker, hasher and object writer *)

\* the byte sequences written as objects: the bytes 1, 2, 3, ... (every chunk
\* different) of every length, and zero bytes (every chunk alike) that fill one
\* chunk, two chunks, and the greatest length
Zeros(n) == [i \in 1..n |-> 0]

Counting(n) == [i \in 1..n |-> i]

Small == {Counting(MaxBlockSize), Zeros(MaxBlockSize)}

Contents ==
    {Counting(n) : n \in 0..MaxDataLen} \cup
    {Zeros(n) : n \in {MaxBlockSize, 2 * MaxBlockSize, MaxDataLen}}

\* the hasher: a fixed-width hash of the chunk, taken to be free of collisions
Hash(chunk) == <<"h", chunk>>

\* a chunk is tagged with what it holds: "data" bytes or the "list" of an
\* indirect object
NewWriterState(tag) == [tag |-> tag, buf |-> <<>>, chunks |-> <<>>]

\* the FIXED chunker: chunks of exactly MaxBlockSize bytes leave the buffer
RECURSIVE Emit(_)
Emit(w) ==
    IF Len(w.buf) >= MaxBlockSize
    THEN Emit([w EXCEPT !.chunks = Append(@, <<w.tag, SubSeq(w.buf, 1, MaxBlockSize)>>),
                        !.buf = SubSeq(w.buf, MaxBlockSize + 1, Len(w.buf))])
    ELSE w

\* Writer.Write
WriteFlushEach(w, bytes) ==
    LET e == Emit([w EXCEPT !.buf = @ \o bytes])
    IN  IF e.buf = <<>> THEN e
        ELSE [e EXCEPT !.chunks = Append(@, <<e.tag, e.buf>>), !.buf = <<>>]

Write(w, bytes) == Emit([w EXCEPT !.buf = @ \o bytes])

\* Writer.Result: the tail of the chunker is flushed; an object without bytes is
\* one empty chunk
FlushTail(w) ==
    IF w.buf # <<>> \/ w.chunks = <<>>
    THEN [w EXCEPT !.chunks = Append(@, <<w.tag, w.buf>>), !.buf = <<>>]
    ELSE w

RECURSIVE StartOf(_, _)
StartOf(chunks, i) == IF i = 1 THEN 0 ELSE StartOf(chunks, i - 1) + Len(chunks[i - 1][2])

\* the list of an indirect object: start offset, length and object ID per chunk
IndirectListNoStart(chunks) ==
    [i \in DOMAIN chunks |->
        [s |-> 0, l |-> Len(chunks[i][2]), o |-> <<"D", Hash(chunks[i])>>]]

IndirectList(chunks) ==
    [i \in DOMAIN chunks |->
        [s |-> StartOf(chunks, i), l |-> Len(chunks[i][2]), o |-> <<"D", Hash(chunks[i])>>]]

\* Writer.Result on the recorded chunk list: D<hash> for one chunk, else the list
\* is written as an object of its own (extra: the chunks that takes) and the ID
\* is I<the ID of that object>
RECURSIVE ResultOf(_)
ResultOf(chunks) ==
    IF Len(chunks) = 1
    THEN [oid |-> <<"D", Hash(chunks[1])>>, extra |-> <<>>]
    ELSE LET lw == FlushTail(Write(NewWriterState("list"), IndirectList(chunks)))
             sub == ResultOf(lw.chunks)
         IN  [oid |-> <<"I", sub.oid>>, extra |-> lw.chunks \o sub.extra]

\* writeObject with a single Write: the object ID and every chunk produced
WriteWhole(data) ==
    LET w == FlushTail(Write(NewWriterState("data"), data))
    IN  [oid |-> ResultOf(w.chunks).oid, chunks |-> w.chunks \o ResultOf(w.chunks).extra]

----------------------------------------------------------------------------
(* Repository: pack builder, pack index, backing store *)

\* the store holds the format block, pack blobs and index blobs, each blob
\* named by its content; overwritten: the pack blobs whose stored bytes are no
\* longer the ones they were written with
EmptyStore == [format |-> FALSE, packs |-> {}, indexes |-> {}, overwritten |-> {}]

\* the bytes the store gives for the pack blob of a name
PackBytes(st, p) ==
    IF \E o \in st.overwritten : o.pack = p
    THEN (CHOOSE o \in st.overwritten : o.pack = p).bytes
    ELSE p

BlobCount(st) == (IF st.format THEN 1 ELSE 0) + Cardinality(st.packs) + Cardinality(st.indexes)

\* repo.Blocks without a connection
NoBlocks == [index |-> {}, dirty |-> {}, pack |-> <<>>]

NoWriter == [st |-> "none"]

\* the location the repository knows for a chunk hash: an index entry, or the
\* position in the open pack
IndexEntries(pack) == {[hash |-> Hash(pack[i]), pack |-> pack, pos |-> i] : i \in DOMAIN pack}

Indexed(b, h) == \E e \in b.index : e.hash = h

InOpenPack(b, h) == \E i \in DOMAIN b.pack : Hash(b.pack[i]) = h

\* pack builder flush: the pack blob is uploaded, its entries go to the pack
\* index (dirty), a new pack is started
FlushPack(sb) ==
    IF sb.blocks.pack = <<>> THEN sb
    ELSE [store |-> [sb.store EXCEPT !.packs = @ \cup {sb.blocks.pack}],
          blocks |-> [index |-> sb.blocks.index \cup IndexEntries(sb.blocks.pack),
                      dirty |-> sb.blocks.dirty \cup IndexEntries(sb.blocks.pack),
                      pack |-> <<>>]]

\* pack builder add: a hash already known is not appended again; a pack that has
\* reached the target is flushed
AddBlockNoDedup(sb, chunk) ==
    LET added == [sb EXCEPT !.blocks.pack = Append(@, chunk)]
    IN  IF Len(added.blocks.pack) >= PackTarget THEN FlushPack(added) ELSE added

AddBlock(sb, chunk) ==
    IF Indexed(sb.blocks, Hash(chunk)) \/ InOpenPack(sb.blocks, Hash(chunk)) THEN sb
    ELSE LET added == [sb EXCEPT !.blocks.pack = Append(@, chunk)]
         IN  IF Len(added.blocks.pack) >= PackTarget THEN FlushPack(added) ELSE added

RECURSIVE AddBlocks(_, _)
AddBlocks(sb, chunks) ==
    IF chunks = <<>> THEN sb ELSE AddBlocks(AddBlock(sb, Head(chunks)), Tail(chunks))

\* pack index persist: the dirty entries become one index blob
PersistIndexDropped(sb) == [sb EXCEPT !.blocks.dirty = {}]

PersistIndex(sb) ==
    IF sb.blocks.dirty = {} THEN sb
    ELSE [store |-> [sb.store EXCEPT !.indexes = @ \cup {sb.blocks.dirty}],
          blocks |-> [sb.blocks EXCEPT !.dirty = {}]]

\* pack index load: the entries of every index blob of the store, merged
LoadIndex(st) == [index |-> UNION st.indexes, dirty |-> {}, pack |-> <<>>]

\* the error of the store's get for a name it does not hold
ErrBlockNotFound == "storage.ErrBlockNotFound"

\* the error of a read whose bytes do not hash to the ID asked for
ErrCorruptData == "CorruptData"

\* block read by hash: from the open pack, or through the index from the pack
\* blob in the store; <<chunk>>, or <<>> when the store has no such block
GetBlock(sb, h) ==
    IF InOpenPack(sb.blocks, h)
    THEN <<sb.blocks.pack[CHOOSE i \in DOMAIN sb.blocks.pack : Hash(sb.blocks.pack[i]) = h]>>
    ELSE IF \E e \in sb.blocks.index : e.hash = h /\ e.pack \in sb.store.packs
    THEN LET e == CHOOSE e \in sb.blocks.index : e.hash = h /\ e.pack \in sb.store.packs
         IN  <<PackBytes(sb.store, e.pack)[e.pos]>>
    ELSE <<>>

\* the reader rehashes the bytes fetched and compares with the ID
VerifiedAlways(h, chunk) == TRUE

Verified(h, chunk) == Hash(chunk) = h

\* a validated fetch: the chunk, or the error
FetchBlock(sb, h) ==
    LET blk == GetBlock(sb, h)
    IN  IF blk = <<>> THEN [err |-> ErrBlockNotFound, chunk |-> <<>>]
        ELSE IF ~Verified(h, blk[1]) THEN [err |-> ErrCorruptData, chunk |-> <<>>]
        ELSE [err |-> NoErr, chunk |-> blk[1]]

NoReader == [kind |-> "none"]

\* no CompactIndexes call is in progress
NoCompaction == [st |-> "idle"]

----------------------------------------------------------------------------
(* Initial state: a new Uploader, no Upload made yet *)

NoUpload == [kind |-> "none"]

EmptyManifest == [RootObjectID |-> NullID, HashCacheID |-> NullID]

\* the tree holds an entry whose upload fails
RECURSIVE HasFault(_)
HasFault(e) ==
    e.fault # "none" \/ \E i \in DOMAIN e.children : HasFault(e.children[i])

\* NewUploader: the fields the caller does not set
NewUploader ==
    /\ cancelled = 0
    /\ stats = ZeroStats
    /\ hashCacheCutoff = 0
    /\ cacheReader = EmptyReader
    /\ cacheWriter = NewCacheWriter
    /\ writtenBytes = 0
    /\ pc = "idle"
    /\ stack = <<>>
    /\ ret = NoRet
    /\ mainCopied = 0
    /\ pool = EmptyPool
    /\ s = EmptyManifest
    /\ old = NoUpload
    /\ result = NoUpload
    /\ uploads = 0

\* IgnoreFileErrors is read only when a closure has failed, so a tree in which
\* none fails is uploaded with the default of NewUploader only; the coin of
\* maybeIgnoreHashCacheEntry is drawn on the main routine before the workers are
\* launched, so ForceHashPercentage is varied with the ParallelUploads of NewUploader;
\* the byte limit is read in the copy loops of the workers and is varied where two
\* of them run
Init ==
    /\ source \in Sources
    /\ ParallelUploads \in 0..MaxParallel
    /\ IgnoreFileErrors \in (IF HasFault(source) THEN BOOLEAN ELSE {TRUE})
    /\ ForceHashPercentage \in (IF ParallelUploads = 1 THEN {0, 50, 100} ELSE {0})
    /\ MaxUploadBytes \in (IF ParallelUploads = DefaultWorkerCount THEN {0, ByteLimit} ELSE {0})
    /\ NewUploader
    /\ store = EmptyStore
    /\ blocks = NoBlocks
    /\ writer = NoWriter
    /\ objects = <<>>
    /\ opened = NoReader
    /\ compaction = NoCompaction
    /\ ops = <<>>

config == <<ParallelUploads, IgnoreFileErrors, ForceHashPercentage, MaxUploadBytes>>

----------------------------------------------------------------------------
(* Upload *)

\* the caller passes the manifest of the previous Upload when it returned one,
\* and nil otherwise
PreviousManifest == IF result.kind = "manifest" THEN result ELSE NoUpload

\* the files of the root directory that may have been modified since the
\* previous Upload: one of them at most, and none before the first Upload
Modifiable ==
    { i \in DOMAIN source.children :
        /\ uploads > 0
        /\ source.kind = "dir"
        /\ source.children[i].kind = "file"
        /\ \A j \in DOMAIN source.children : source.children[j].mtime # Now }

\* the source with the modification time of the i-th file set to the current time
Modified(i) == IF i = 0 THEN source ELSE [source EXCEPT !.children[i].mtime = Now]

\* an Upload that would also clear the cancel flag
StartUploadClearsFlag ==
    /\ pc \in {"idle", "done"}
    /\ uploads < MaxUploads
    /\ PoolQuiet
    /\ \E i \in {0} \cup Modifiable : source' = Modified(i)
    /\ old' = PreviousManifest
    /\ cacheReader' = OpenHashCache(PreviousManifest)
    /\ uploads' = uploads + 1
    /\ hashCacheCutoff' = Now - HashCacheMinAge
    /\ s' = EmptyManifest
    /\ ret' = NoRet
    /\ mainCopied' = 0
    /\ pool' = EmptyPool
    /\ CASE SourceCase(source) = "dir" ->
              \* uploadDir, lines 237-242, and the entry of uploadDirInternal
              /\ cacheWriter' = NewCacheWriter
              /\ stats' = [ZeroStats EXCEPT !.TotalDirectoryCount = 1]
              /\ stack' = <<Settle(NewFrame(<<>>, source'.children))>>
              /\ pc' = "dir"
              /\ result' = NoUpload
         [] SourceCase(source) = "file" ->
              /\ stats' = ZeroStats
              /\ pc' = "file"
              /\ result' = NoUpload
              /\ UNCHANGED <<cacheWriter, stack>>
         [] OTHER ->
              /\ stats' = ZeroStats
              /\ pc' = "done"
              /\ result' = [kind |-> "error", err |-> "unsupported source"]
              /\ UNCHANGED <<cacheWriter, stack>>
    /\ cancelled' = 0
    /\ UNCHANGED <<repoVars, config, writtenBytes>>


\* Upload, lines 564-603: reset the stats, open the old hash cache, compute the
\* cutoff and dispatch on the type of the source
StartUpload ==
    /\ pc \in {"idle", "done"}
    /\ uploads < MaxUploads
    /\ PoolQuiet
    /\ \E i \in {0} \cup Modifiable : source' = Modified(i)
    /\ old' = PreviousManifest
    /\ cacheReader' = OpenHashCache(PreviousManifest)
    /\ uploads' = uploads + 1
    /\ hashCacheCutoff' = Now - HashCacheMinAge
    /\ s' = EmptyManifest
    /\ ret' = NoRet
    /\ mainCopied' = 0
    /\ pool' = EmptyPool
    /\ CASE SourceCase(source) = "dir" ->
              \* uploadDir, lines 237-242, and the entry of uploadDirInternal
              /\ cacheWriter' = NewCacheWriter
              /\ stats' = [ZeroStats EXCEPT !.TotalDirectoryCount = 1]
              /\ stack' = <<Settle(NewFrame(<<>>, source'.children))>>
              /\ pc' = "dir"
              /\ result' = NoUpload
         [] SourceCase(source) = "file" ->
              /\ stats' = ZeroStats
              /\ pc' = "file"
              /\ result' = NoUpload
              /\ UNCHANGED <<cacheWriter, stack>>
         [] OTHER ->
              /\ stats' = ZeroStats
              /\ pc' = "done"
              /\ result' = [kind |-> "error", err |-> "unsupported source"]
              /\ UNCHANGED <<cacheWriter, stack>>
    /\ UNCHANGED <<repoVars, config, cancelled, writtenBytes>>

\* uploadDirInternal returns from the innermost frame
DoReturn(oid, err) ==
    LET r == Return(stack, oid, err)
    IN  /\ stack' = r.stack
        /\ ret' = r.ret
        /\ pc' = IF r.stack = <<>> THEN "uploadDirTail" ELSE "dir"

ReplaceTop(f) == stack' = <<f>> \o Tail(stack)

\* processSubdirectories, lines 292-316: one iteration of its loop over the entries
ProcessSubdirectories ==
    /\ pc = "dir"
    /\ Head(stack).phase = "subdirs"
    /\ LET f == Head(stack)
           e == f.entries[f.idx]
       IN  IF IsCancelled
           THEN DoReturn(NullID, errCancelled) /\ UNCHANGED stats
           ELSE IF ~e.incl
           THEN /\ stats' = CountExcluded(stats, e)
                /\ ReplaceTop(Advance(f))
                /\ UNCHANGED <<pc, ret>>
           ELSE IF e.kind = "dir"
           THEN /\ stats' = [stats EXCEPT !.TotalDirectoryCount = @ + 1]
                /\ stack' = <<Settle(NewFrame(Append(f.path, e.name), e.children))>> \o stack
                /\ UNCHANGED <<pc, ret>>
           ELSE /\ ReplaceTop(Advance(f))
                /\ UNCHANGED <<stats, pc, ret>>
    /\ UNCHANGED <<repoVars, source, config, cancelled, hashCacheCutoff, cacheReader, cacheWriter,
                   writtenBytes, mainCopied, pool, s, old, result, uploads>>

\* prepareProgress, lines 318-333: one iteration; a cancellation ends the loop and
\* its error is dropped
PrepareProgress ==
    /\ pc = "dir"
    /\ Head(stack).phase = "progress"
    /\ LET f == Head(stack)
           e == f.entries[f.idx]
       IN  IF IsCancelled
           THEN /\ ReplaceTop([f EXCEPT !.phase = "prepare", !.idx = 1])
                /\ UNCHANGED stats
           ELSE IF ~e.incl
           THEN /\ stats' = CountExcluded(stats, e)
                /\ ReplaceTop(Advance(f))
           ELSE /\ ReplaceTop(Advance(f))
                /\ UNCHANGED stats
    /\ UNCHANGED <<repoVars, source, config, cancelled, hashCacheCutoff, cacheReader, cacheWriter,
                   writtenBytes, pc, ret, mainCopied, pool, s, old, result, uploads>>

\* prepareWorkItems, lines 342-416: one iteration of its loop over the entries
PrepareWorkItems ==
    /\ pc = "dir"
    /\ Head(stack).phase = "prepare"
    /\ \E roll \in RollValues :
       LET f == Head(stack)
           e == f.entries[f.idx]
           path == Append(f.path, e.name)
           cachedEntry == maybeIgnoreHashCacheEntry(roll, ForceHashPercentage,
                                                    FindEntry(cacheReader, path))
           computedHash == metadataHash(e)
           cacheMatches == cachedEntry # <<>> /\ cachedEntry[1].hash = computedHash
           counted == IF e.kind = "file"
                      THEN [stats EXCEPT !.TotalFileCount = @ + 1, !.TotalFileSize = @ + e.size]
                      ELSE stats
           item(cl, res) == [entry |-> e, path |-> path, closure |-> cl,
                             cachedResult |-> res, roll |-> roll]
       IN  IF IsCancelled
           THEN DoReturn(NullID, errCancelled) /\ UNCHANGED <<stats, cacheReader>>
           ELSE IF ~e.incl
           THEN /\ stats' = CountExcluded(stats, e)
                /\ ReplaceTop(Advance(f))
                /\ UNCHANGED <<pc, ret, cacheReader>>
           ELSE IF e.kind = "dir"
           THEN /\ ReplaceTop(Advance(f))
                /\ UNCHANGED <<stats, pc, ret, cacheReader>>
           ELSE /\ cacheReader' = AfterFind(cacheReader, path)
                /\ IF cacheMatches
                   THEN /\ stats' = [counted EXCEPT !.CachedFiles = @ + 1]
                        /\ ReplaceTop(Advance([f EXCEPT !.items = Append(@,
                               item("cached",
                                    [err |-> NoErr,
                                     de |-> <<newDirEntry(e, cachedEntry[1].oid)>>,
                                     hash |-> cachedEntry[1].hash]))]))
                        /\ UNCHANGED <<pc, ret>>
                   ELSE IF e.kind = "symlink"
                   THEN /\ stats' = counted
                        /\ ReplaceTop(Advance([f EXCEPT !.items = Append(@, item("symlink", NoResult))]))
                        /\ UNCHANGED <<pc, ret>>
                   ELSE IF e.kind = "file"
                   THEN /\ stats' = [counted EXCEPT !.NonCachedFiles = @ + 1]
                        /\ ReplaceTop(Advance([f EXCEPT !.items = Append(@, item("file", NoResult))]))
                        /\ UNCHANGED <<pc, ret>>
                   ELSE /\ stats' = counted
                        /\ DoReturn(NullID, "file type not supported")
    /\ UNCHANGED <<repoVars, source, config, cancelled, hashCacheCutoff, cacheWriter,
                   writtenBytes, mainCopied, pool, s, old, result, uploads>>

\* the work item as the workers see it (the drawn roll is not part of it)
WorkItem(it) ==
    [entry |-> it.entry, path |-> it.path, closure |-> it.closure,
     cachedResult |-> it.cachedResult]

\* launchWorkItems, lines 431-456: a result channel per item, the feeder and the workers
LaunchWorkItems ==
    /\ pc = "dir"
    /\ Head(stack).phase = "launch"
    /\ LET f == Head(stack)
           items == [i \in DOMAIN f.items |-> WorkItem(f.items[i])]
       IN  /\ pool' = NewPool(items, WorkerCount(ParallelUploads))
           /\ ReplaceTop([f EXCEPT !.items = items, !.next = 1,
                                   !.phase = IF Len(items) = 0 THEN "wait" ELSE "consume"])
    /\ UNCHANGED <<repoVars, source, config, cancelled, stats, hashCacheCutoff, cacheReader,
                   cacheWriter, writtenBytes, pc, ret, mainCopied, s, old, result, uploads>>

\* processUploadWorkItems, lines 463-492: one iteration of the loop over the items
ConsumeResult ==
    /\ pc = "dir"
    /\ Head(stack).phase = "consume"
    /\ LET f == Head(stack)
           i == ResultChanToRead(f.next, pool.results)
           r == pool.results[i]
           it == f.items[f.next]
           continue == [f EXCEPT !.next = @ + 1,
                                 !.phase = IF f.next + 1 > Len(f.items) THEN "wait" ELSE "consume"]
       IN  /\ r.err # "none"
           /\ pool' = [pool EXCEPT !.results[i] = NoResult]
           /\ IF r.err = errCancelled
              THEN DoReturn(NullID, errCancelled) /\ UNCHANGED <<stats, cacheWriter>>
              ELSE IF r.err # NoErr
              THEN IF IgnoreFileErrors
                   THEN /\ stats' = [stats EXCEPT !.ReadErrors = @ + 1]
                        /\ ReplaceTop(continue)
                        /\ UNCHANGED <<pc, ret, cacheWriter>>
                   ELSE DoReturn(NullID, "unable to process") /\ UNCHANGED <<stats, cacheWriter>>
              ELSE /\ ReplaceTop([continue EXCEPT !.dw = @ \o r.de])
                   /\ cacheWriter' =
                         IF r.hash # 0 /\ Before(it.entry.mtime, hashCacheCutoff)
                         THEN WriteCacheEntry(cacheWriter, it.path, r.hash, r.de[1].oid)
                         ELSE cacheWriter
                   /\ UNCHANGED <<stats, pc, ret>>
    /\ UNCHANGED <<repoVars, source, config, cancelled, hashCacheCutoff, cacheReader,
                   writtenBytes, mainCopied, s, old, result, uploads>>

\* processUploadWorkItems, line 495, and uploadDirInternal, lines 531-535:
\* wait for the workers, finalize the directory writer, return its object ID
WaitAndFinalize ==
    /\ pc = "dir"
    /\ Head(stack).phase = "wait"
    /\ PoolQuiet
    /\ DoReturn(DirID(Head(stack).dw), NoErr)
    /\ UNCHANGED <<repoVars, source, config, cancelled, stats, hashCacheCutoff, cacheReader,
                   cacheWriter, writtenBytes, mainCopied, pool, s, old, result, uploads>>

\* uploadDir, lines 243-260, and the error check of Upload, lines 604-606
UploadDirReturn ==
    /\ pc = "uploadDirTail"
    /\ LET copied == IF IsCancelled THEN CopyTo(cacheReader, cacheWriter) ELSE cacheWriter
       IN  /\ cacheReader' = IF IsCancelled
                             THEN [cacheReader EXCEPT !.pos = Len(cacheReader.entries) + 1]
                             ELSE cacheReader
           /\ IF IsCancelled /\ ret.err # NoErr
              THEN \* line 245: err2, the error of CopyTo, is returned: nil
                   /\ cacheWriter' = copied
                   /\ s' = EmptyManifest
                   /\ pc' = "finish"
                   /\ UNCHANGED result
              ELSE IF ret.err # NoErr
              THEN /\ cacheWriter' = [copied EXCEPT !.finalized = TRUE]
                   /\ result' = [kind |-> "error", err |-> ret.err]
                   /\ pc' = "done"
                   /\ UNCHANGED s
              ELSE \* mw.Result() is taken before the deferred Finalize runs
                   /\ s' = [RootObjectID |-> ret.oid, HashCacheID |-> HashCacheID(copied)]
                   /\ cacheWriter' = [copied EXCEPT !.finalized = TRUE]
                   /\ pc' = "finish"
                   /\ UNCHANGED result
    /\ UNCHANGED <<repoVars, source, config, cancelled, stats, hashCacheCutoff, writtenBytes,
                   stack, ret, mainCopied, pool, old, uploads>>

\* Upload, lines 608-613
UploadFinish ==
    /\ pc = "finish"
    /\ result' = [kind |-> "manifest",
                  RootObjectID |-> s.RootObjectID,
                  HashCacheID |-> s.HashCacheID,
                  IncompleteReason |-> cancelReason(cancelled, MaxUploadBytes, writtenBytes),
                  Stats |-> stats]
    /\ pc' = "done"
    /\ UNCHANGED <<repoVars, source, config, cancelled, stats, hashCacheCutoff, cacheReader,
                   cacheWriter, writtenBytes, stack, ret, mainCopied, pool, s, old, uploads>>

\* uploadFile and uploadFileInternal on the main routine: one iteration of the
\* loop of copyWithProgress, lines 181-212, then lines 115-128 and 227-230
UploadFileCopy ==
    /\ pc = "file"
    /\ IF IsCancelled
       THEN /\ result' = [kind |-> "error", err |-> errCancelled]
            /\ pc' = "done"
            /\ UNCHANGED <<mainCopied, writtenBytes, s>>
       ELSE IF source.fault # "none"
       THEN /\ result' = [kind |-> "error", err |-> "read error"]
            /\ pc' = "done"
            /\ UNCHANGED <<mainCopied, writtenBytes, s>>
       ELSE IF mainCopied < source.size
       THEN /\ mainCopied' = mainCopied + 1
            /\ writtenBytes' = AddWritten(writtenBytes, 1)
            /\ UNCHANGED <<pc, result, s>>
       ELSE /\ s' = [RootObjectID |-> ContentID(<<source.name>>), HashCacheID |-> NullID]
            /\ pc' = "finish"
            /\ UNCHANGED <<mainCopied, writtenBytes, result>>
    /\ UNCHANGED <<repoVars, source, config, cancelled, stats, hashCacheCutoff, cacheReader,
                   cacheWriter, stack, ret, pool, old, uploads>>

----------------------------------------------------------------------------
(* Feeder and workers of launchWorkItems *)

\* a channel that would hand the same item to every receiver
WorkerReceiveSameItem(w) ==
    /\ pool.workers[w].st = "idle"
    /\ pool.feedNext <= Len(pool.items)
    /\ pool' = [pool EXCEPT !.workers[w] = [st |-> "busy", item |-> pool.feedNext, copied |-> 0],
                            !.feedNext = IF \E v \in DOMAIN pool.workers :
                                              /\ pool.workers[v].st = "busy"
                                              /\ pool.workers[v].item = pool.feedNext
                                         THEN @ + 1 ELSE @]
    /\ UNCHANGED <<repoVars, source, config, cancelled, stats, hashCacheCutoff, cacheReader,
                   cacheWriter, writtenBytes, pc, stack, ret, mainCopied, s, old,
                   result, uploads>>

\* a feeder that would stop handing out items once the main routine has left
\* the directory
WorkerReceiveWhileMainWaits(w) ==
    /\ pc = "dir"
    /\ pool.workers[w].st = "idle"
    /\ pool.feedNext <= Len(pool.items)
    /\ pool' = [pool EXCEPT !.workers[w] = [st |-> "busy", item |-> pool.feedNext, copied |-> 0],
                            !.feedNext = @ + 1]
    /\ UNCHANGED <<repoVars, source, config, cancelled, stats, hashCacheCutoff, cacheReader,
                   cacheWriter, writtenBytes, pc, stack, ret, mainCopied, s, old,
                   result, uploads>>

\* toChannel and the worker loop, lines 423-425 and 448: the feeder hands the next
\* item to a worker waiting on the channel
WorkerReceive(w) ==
    /\ pool.workers[w].st = "idle"
    /\ pool.feedNext <= Len(pool.items)
    /\ pool' = [pool EXCEPT !.workers[w] = [st |-> "busy", item |-> pool.feedNext, copied |-> 0],
                            !.feedNext = @ + 1]
    /\ UNCHANGED <<repoVars, source, config, cancelled, stats, hashCacheCutoff, cacheReader,
                   cacheWriter, writtenBytes, pc, stack, ret, mainCopied, s, old,
                   result, uploads>>

\* line 451: the worker runs the closure of its item, one iteration of the copy
\* loop at a time, and sends what it returns to the item's result channel
WorkerRun(w) ==
    /\ pool.workers[w].st = "busy"
    /\ LET wk == pool.workers[w]
           it == pool.items[wk.item]
           post(r) == pool' = [pool EXCEPT !.results[wk.item] = r, !.workers[w] = IdleWorker]
       IN  IF it.closure = "cached"
           THEN post(it.cachedResult) /\ UNCHANGED writtenBytes
           ELSE IF IsCancelled
           THEN post(ErrResult(errCancelled)) /\ UNCHANGED writtenBytes
           ELSE IF it.entry.fault # "none"
           THEN post(ItemResult(it)) /\ UNCHANGED writtenBytes
           ELSE IF wk.copied < it.entry.size
           THEN /\ pool' = [pool EXCEPT !.workers[w].copied = @ + 1]
                /\ writtenBytes' = AddWritten(writtenBytes, 1)
           ELSE post(ItemResult(it)) /\ UNCHANGED writtenBytes
    /\ UNCHANGED <<repoVars, source, config, cancelled, stats, hashCacheCutoff, cacheReader,
                   cacheWriter, pc, stack, ret, mainCopied, s, old, result, uploads>>

\* lines 421 and 446-448: the channel is closed, the worker leaves its loop
WorkerExit(w) ==
    /\ pool.workers[w].st = "idle"
    /\ pool.feedNext > Len(pool.items)
    /\ pool' = [pool EXCEPT !.workers[w].st = "exited"]
    /\ UNCHANGED <<repoVars, source, config, cancelled, stats, hashCacheCutoff, cacheReader,
                   cacheWriter, writtenBytes, pc, stack, ret, mainCopied, s, old,
                   result, uploads>>

----------------------------------------------------------------------------
(* Environment *)

\* Cancel, lines 558-560
Cancel ==
    /\ cancelled = 0
    /\ cancelled' = 1
    /\ UNCHANGED <<repoVars, source, config, stats, hashCacheCutoff, cacheReader, cacheWriter,
                   writtenBytes, pc, stack, ret, mainCopied, pool, s, old, result, uploads>>

Next ==
    \/ StartUpload
    \/ ProcessSubdirectories
    \/ PrepareProgress
    \/ PrepareWorkItems
    \/ LaunchWorkItems
    \/ ConsumeResult
    \/ WaitAndFinalize
    \/ UploadDirReturn
    \/ UploadFinish
    \/ UploadFileCopy
    \/ \E w \in DOMAIN pool.workers : WorkerReceive(w) \/ WorkerRun(w) \/ WorkerExit(w)
    \/ Cancel

Spec == Init /\ [][Next]_vars

\* the steps of the routine that called Upload
MainRoutine ==
    \/ ProcessSubdirectories
    \/ PrepareProgress
    \/ PrepareWorkItems
    \/ LaunchWorkItems
    \/ ConsumeResult
    \/ WaitAndFinalize
    \/ UploadDirReturn
    \/ UploadFinish
    \/ UploadFileCopy

\* the steps of the w-th worker goroutine of launchWorkItems, lines 444-454,
\* with the feeder's send that it receives
Worker(w) ==
    /\ w \in DOMAIN pool.workers
    /\ (WorkerReceive(w) \/ WorkerRun(w) \/ WorkerExit(w))

\* Go schedules every goroutine that can run: the calling routine and each
\* worker take a step when one stays possible. Closures return: a closure is
\* a bounded number of WorkerRun steps.
FairSpec ==
    /\ Spec
    /\ WF_vars(MainRoutine)
    /\ \A w \in 1..DefaultWorkerCount + MaxParallel : WF_vars(Worker(w))

----------------------------------------------------------------------------
(* Repository: object reader *)

\* the store and the block manager, as the operators on blocks take them
Repo == [store |-> store, blocks |-> blocks]

Min(a, b) == IF a < b THEN a ELSE b

Max(a, b) == IF a > b THEN a ELSE b

\* the whole content of an object: a direct object is its chunk, an indirect one
\* the concatenation of the objects its list names
RECURSIVE ReadAll(_, _), ConcatAll(_, _, _)
ReadAll(sb, oid) ==
    IF oid[1] = "D"
    THEN LET blk == FetchBlock(sb, oid[2])
         IN  IF blk.err # NoErr THEN [err |-> blk.err, data |-> <<>>]
             ELSE [err |-> NoErr, data |-> blk.chunk[2]]
    ELSE LET list == ReadAll(sb, oid[2])
         IN  IF list.err # NoErr THEN list ELSE ConcatAll(sb, list.data, 1)

ConcatAll(sb, entries, i) ==
    IF i > Len(entries) THEN [err |-> NoErr, data |-> <<>>]
    ELSE LET part == ReadAll(sb, entries[i].o)
             rest == ConcatAll(sb, entries, i + 1)
         IN  IF part.err # NoErr THEN part
             ELSE IF rest.err # NoErr THEN rest
             ELSE [err |-> NoErr, data |-> part.data \o rest.data]

\* the bytes [off, off + len) of an object: only the entries of the list that
\* overlap the range are read, each from its own start offset
RECURSIVE ReadRange(_, _, _, _), RangeParts(_, _, _, _, _)
ReadRange(sb, oid, off, len) ==
    IF oid[1] = "D"
    THEN LET blk == FetchBlock(sb, oid[2])
         IN  IF blk.err # NoErr THEN [err |-> blk.err, data |-> <<>>]
             ELSE [err |-> NoErr, data |-> SubSeq(blk.chunk[2], off + 1, off + len)]
    ELSE LET list == ReadAll(sb, oid[2])
         IN  IF list.err # NoErr THEN list ELSE RangeParts(sb, list.data, 1, off, len)

RangeParts(sb, entries, i, off, len) ==
    IF i > Len(entries) THEN [err |-> NoErr, data |-> <<>>]
    ELSE LET e == entries[i]
             rest == RangeParts(sb, entries, i + 1, off, len)
         IN  IF e.s + e.l <= off \/ e.s >= off + len THEN rest
             ELSE LET lo == Max(off, e.s) - e.s
                      hi == Min(off + len, e.s + e.l) - e.s
                      part == ReadRange(sb, e.o, lo, hi - lo)
                  IN  IF part.err # NoErr THEN part
                      ELSE IF rest.err # NoErr THEN rest
                      ELSE [err |-> NoErr, data |-> part.data \o rest.data]

\* Objects.Open: the chunk of a direct ID, or the list of an indirect one, is
\* read; an error of the store is returned as it is, without a reader
OpenWrapped(sb, oid) ==
    LET first == IF oid[1] = "D" THEN ReadAll(sb, oid) ELSE ReadAll(sb, oid[2])
    IN  IF first.err # NoErr THEN [kind |-> "error", err |-> <<"unable to open", first.err>>]
        ELSE [kind |-> "reader", oid |-> oid, pos |-> 0]

Open(sb, oid) ==
    LET first == IF oid[1] = "D" THEN ReadAll(sb, oid) ELSE ReadAll(sb, oid[2])
    IN  IF first.err # NoErr THEN [kind |-> "error", err |-> first.err]
        ELSE [kind |-> "reader", oid |-> oid, pos |-> 0]

\* Reader.Seek from the start: the new position
Seek(r, off) == [r EXCEPT !.pos = off]

\* Reader.Read of up to n bytes at the position
Read(sb, r, n) == ReadRange(sb, r.oid, r.pos, n)

----------------------------------------------------------------------------
(* Repository: the operations the tests make on one store *)

\* setupTest: Initialize has written the format block, connect has loaded the
\* (empty) index; no Uploader is at work
RepoInit ==
    /\ source = Entry(0, "file", OldTime, 1, TRUE, "none", <<>>)
    /\ ParallelUploads = 1
    /\ IgnoreFileErrors = TRUE
    /\ ForceHashPercentage = 0
    /\ MaxUploadBytes = 0
    /\ NewUploader
    /\ store = [EmptyStore EXCEPT !.format = TRUE]
    /\ blocks = LoadIndex(EmptyStore)
    /\ writer = NoWriter
    /\ objects = <<>>
    /\ opened = NoReader
    /\ compaction = NoCompaction
    /\ ops = <<>>

\* the calls remembered once op is made
Called(op) == IF ops = <<>> THEN <<op>> ELSE <<ops[Len(ops)], op>>

\* repo.Objects.NewWriter for an object of the given bytes: any bytes for the
\* first object, the same bytes again or a small object after it
NewWriter ==
    /\ writer.st # "open"
    /\ compaction.st = "idle"
    /\ Len(objects) < MaxObjects
    /\ \E data \in (IF objects = <<>> THEN Contents ELSE {objects[1].data} \cup Small) :
          writer' = [st |-> "open", data |-> data, todo |-> data, writes |-> 0,
                     w |-> NewWriterState("data")]
    /\ UNCHANGED <<uploaderVars, store, blocks, objects, opened, compaction, ops>>

\* the chunks the writer has emitted between two of its states
NewChunks(w1, w2) == SubSeq(w2.chunks, Len(w1.chunks) + 1, Len(w2.chunks))

\* writer.Write of the next k bytes: the chunks that leave the chunker go to the
\* pack builder; the first object is written in Write calls of every length,
\* the later ones in a single Write
WriterWrite ==
    /\ writer.st = "open"
    /\ \E k \in {n \in 1..Len(writer.todo) : objects = <<>> \/ n = Len(writer.todo)} :
          LET w2 == Write(writer.w, SubSeq(writer.todo, 1, k))
              sb == AddBlocks(Repo, NewChunks(writer.w, w2))
          IN  /\ writer' = [writer EXCEPT !.w = w2, !.todo = SubSeq(@, k + 1, Len(@)),
                                          !.writes = @ + 1]
              /\ store' = sb.store
              /\ blocks' = sb.blocks
    /\ UNCHANGED <<uploaderVars, objects, opened, compaction, ops>>

\* writer.Result once everything is written; the writer stays with its caller
\* until the next operation on the repository
WriterResult ==
    /\ writer.st = "open"
    /\ writer.todo = <<>>
    /\ LET w2 == FlushTail(writer.w)
           r == ResultOf(w2.chunks)
           sb == AddBlocks(Repo, NewChunks(writer.w, w2) \o r.extra)
       IN  /\ objects' = Append(objects, [data |-> writer.data, oid |-> r.oid,
                                        flushed |-> FALSE, lost |-> FALSE])
           /\ store' = sb.store
           /\ blocks' = sb.blocks
           /\ writer' = [writer EXCEPT !.st = "done", !.w = w2]
    /\ UNCHANGED <<uploaderVars, opened, compaction, ops>>

\* the objects whose IDs the caller still holds: those written by this process,
\* and those flushed by an earlier one
Live == {i \in DOMAIN objects : ~objects[i].lost}

\* an object ID whose chunk was never written (Ddeadbeef)
UnknownID == <<"D", Hash(<<"data", <<255>>>>)>>

\* repo.Objects.Open of a returned ID or of the unknown one
OpenObject ==
    /\ compaction.st = "idle"
    /\ \E oid \in {objects[i].oid : i \in Live} \cup {UnknownID} :
          opened' = Open(Repo, oid)
    /\ UNCHANGED <<uploaderVars, store, blocks, writer, objects, compaction, ops>>

\* repo.Objects.Flush then repo.Blocks.Flush: the open pack is uploaded and the
\* dirty index entries are persisted
Flush ==
    /\ writer.st # "open"
    /\ compaction.st = "idle"
    /\ LET sb == PersistIndex(FlushPack(Repo))
       IN  /\ store' = sb.store
           /\ blocks' = sb.blocks
    /\ objects' = [i \in DOMAIN objects |-> [objects[i] EXCEPT !.flushed = @ \/ ~objects[i].lost]]
    /\ ops' = Called("Flush")
    /\ writer' = NoWriter
    /\ UNCHANGED <<uploaderVars, opened, compaction>>

\* setupTestWithData on the data of the store: what the process held in memory
\* is gone (a CompactIndexes call in progress ends where it is), the index is
\* loaded from the index blobs
Reopen ==
    /\ writer.st # "open"
    /\ blocks' = LoadIndex(store)
    /\ objects' = [i \in DOMAIN objects |-> [objects[i] EXCEPT !.lost = @ \/ ~objects[i].flushed]]
    /\ opened' = NoReader
    /\ compaction' = NoCompaction
    /\ ops' = Called("Reopen")
    /\ writer' = NoWriter
    /\ UNCHANGED <<uploaderVars, store>>

\* the options of the CompactIndexes calls made: those of TestPackingSimple, and
\* options under which two index blobs are selected
Opt11 == [name |-> "CompactIndexes{1,1}", MinSmallBlocks |-> 1, MaxSmallBlocks |-> 1]

Opt12 == [name |-> "CompactIndexes{1,2}", MinSmallBlocks |-> 1, MaxSmallBlocks |-> 2]

\* the index blobs a compaction may select: up to MaxSmallBlocks of the smallest
\* ones, none when the store has fewer than MinSmallBlocks
Selections(st, opt) ==
    IF Cardinality(st.indexes) < opt.MinSmallBlocks THEN {{}}
    ELSE {sel \in SUBSET st.indexes :
            /\ Cardinality(sel) = Min(opt.MaxSmallBlocks, Cardinality(st.indexes))
            /\ \A a \in sel : \A b \in st.indexes \ sel : Cardinality(a) <= Cardinality(b)}

\* the combined index: the entries of the selected index blobs, merged
CombinedIndexOfOne(sel) == IF sel = {} THEN {} ELSE CHOOSE x \in sel : TRUE

CombinedIndex(sel) == UNION sel

\* the index blobs to delete once the combined index is written: the selected
\* ones; a blob is named by its content, so the combined index of a single blob
\* is that blob, and it stays
CompactInputsAll(sel) == sel

CompactInputs(sel) == sel \ {CombinedIndex(sel)}

\* repo.Blocks.CompactIndexes, first step: the combined index is written
CompactIndexes(opt) ==
    /\ writer.st # "open"
    /\ compaction.st = "idle"
    /\ \E sel \in Selections(store, opt) :
          IF sel = {} THEN UNCHANGED <<store, compaction>>
          ELSE /\ store' = [store EXCEPT !.indexes = @ \cup {CombinedIndex(sel)}]
               /\ compaction' =
                     IF CompactInputs(sel) = {} THEN NoCompaction
                     ELSE [st |-> "deleting", combined |-> CombinedIndex(sel),
                           inputs |-> CompactInputs(sel)]
    /\ ops' = Called(opt.name)
    /\ writer' = NoWriter
    /\ UNCHANGED <<uploaderVars, blocks, objects, opened>>

\* repo.Blocks.CompactIndexes, following steps: one input index blob is deleted
CompactDelete ==
    /\ compaction.st = "deleting"
    /\ \E x \in compaction.inputs :
          /\ store' = [store EXCEPT !.indexes = @ \ {x}]
          /\ compaction' = IF compaction.inputs = {x} THEN NoCompaction
                           ELSE [compaction EXCEPT !.inputs = @ \ {x}]
    /\ UNCHANGED <<uploaderVars, blocks, writer, objects, opened, ops>>

RepoNext ==
    \/ NewWriter
    \/ WriterWrite
    \/ WriterResult
    \/ OpenObject
    \/ Flush
    \/ Reopen
    \/ \E opt \in {Opt11, Opt12} : CompactIndexes(opt)
    \/ CompactDelete

RepoSpec == RepoInit /\ [][RepoNext]_vars

\* bytes that are not the bytes of the chunk: a byte no object holds for a data
\* chunk, the empty list for the list of an indirect object
Garbage(chunk) == <<chunk[1], IF chunk[1] = "data" THEN <<255>> ELSE <<>>>>

\* the bytes of one chunk of a pack blob of the store are overwritten
\* (TestMalformedStoredData puts the bytes in the data map of the store)
Tamper ==
    /\ writer.st # "open"
    /\ store.overwritten = {}
    /\ \E p \in store.packs : \E i \in DOMAIN p :
          store' = [store EXCEPT !.overwritten =
                       {[pack |-> p, bytes |-> [p EXCEPT ![i] = Garbage(p[i])]]}]
    /\ UNCHANGED <<uploaderVars, blocks, writer, objects, opened, compaction, ops>>

\* the operations on a store whose blobs may be overwritten behind the repository
TamperNext ==
    \/ NewWriter
    \/ WriterWrite
    \/ WriterResult
    \/ OpenObject
    \/ Flush
    \/ Tamper

TamperSpec == RepoInit /\ [][TamperNext]_vars

----------------------------------------------------------------------------
(* What a serial upload of a tree writes *)

\* the entry of the tree at a relative path
RECURSIVE EntryAt(_, _)
EntryAt(entries, path) ==
    LET e == entries[CHOOSE i \in DOMAIN entries : entries[i].name = Head(path)]
    IN  IF Len(path) = 1 THEN e ELSE EntryAt(e.children, Tail(path))

\* the entries a complete upload writes to the directory writer of a directory:
\* the included subdirectories in listing order, then the included files and
\* symlinks that can be read, in listing order
RECURSIVE SerialSubdirs(_, _, _), SerialRegular(_, _, _)
SerialSubdirs(entries, path, i) ==
    IF i > Len(entries) THEN <<>>
    ELSE LET e == entries[i]
             sub == Append(path, e.name)
         IN  (IF e.incl /\ e.kind = "dir"
              THEN <<newDirEntry(e, DirID(SerialSubdirs(e.children, sub, 1)
                                          \o SerialRegular(e.children, sub, 1)))>>
              ELSE <<>>)
             \o SerialSubdirs(entries, path, i + 1)

SerialRegular(entries, path, i) ==
    IF i > Len(entries) THEN <<>>
    ELSE LET e == entries[i]
         IN  (IF e.incl /\ e.kind # "dir" /\ e.fault = "none"
              THEN <<newDirEntry(e, ContentID(Append(path, e.name)))>>
              ELSE <<>>)
             \o SerialRegular(entries, path, i + 1)

SerialDirID(entries) == DirID(SerialSubdirs(entries, <<>>, 1) \o SerialRegular(entries, <<>>, 1))

\* the directory entries and the hash-cache entries that the results of the
\* items, taken in item order, make processUploadWorkItems write
RECURSIVE ExpectedEntries(_), ExpectedCache(_)
ExpectedEntries(items) ==
    IF items = <<>> THEN <<>>
    ELSE (IF ItemResult(Head(items)).err = NoErr THEN ItemResult(Head(items)).de ELSE <<>>)
         \o ExpectedEntries(Tail(items))

ExpectedCache(items) ==
    IF items = <<>> THEN <<>>
    ELSE LET it == Head(items)
             r == ItemResult(it)
         IN  (IF r.err = NoErr /\ it.entry.mtime < hashCacheCutoff
              THEN <<[name |-> it.path, hash |-> r.hash, oid |-> r.de[1].oid]>>
              ELSE <<>>)
             \o ExpectedCache(Tail(items))

IsRegular(de) == de.kind # "dir"

Consuming == pc = "dir" /\ Head(stack).phase \in {"consume", "wait"}

Preparing == pc = "dir" /\ Head(stack).phase \in {"prepare", "launch"}

ParentOf(path) == SubSeq(path, 1, Len(path) - 1)

\* the entries the hash-cache writer got from WriteEntry (not from CopyTo)
WrittenCacheEntries == SubSeq(cacheWriter.entries, 1, Len(cacheWriter.entries) - cacheWriter.copied)

----------------------------------------------------------------------------
(* Claims *)

\* C1: whatever the number of workers and the order in which they finish, the
\* entries written to the directory writer and to the hash-cache writer are the
\* results of the items consumed so far, in item order; a directory object that a
\* manifest names is the one a serial upload of the tree writes.
OrderPreserved ==
    /\ Consuming =>
         LET f == Head(stack)
             done == SubSeq(f.items, 1, f.next - 1)
             inDir(ce) == ParentOf(ce.name) = f.path
         IN  /\ SelectSeq(f.dw, IsRegular) = ExpectedEntries(done)
             /\ SelectSeq(WrittenCacheEntries, inDir) = ExpectedCache(done)
    /\ (pc = "done" /\ result.kind = "manifest" /\ source.kind = "dir"
          /\ result.RootObjectID # NullID)
         => result.RootObjectID = SerialDirID(source.children)

\* C1 witness: with two workers the second item's result is ready while the
\* first item's result is still awaited by the main routine.
OrderPreservedWitness ==
    /\ Consuming
    /\ WorkerCount(ParallelUploads) >= 2
    /\ Len(Head(stack).items) >= 2
    /\ Head(stack).next = 1
    /\ pool.results[1].err = "none"
    /\ pool.results[2].err = NoErr

\* C2: a cancelled Upload returns a manifest, never the cancellation error.
CancelledUploadReturnsManifest ==
    (pc = "done" /\ result.kind = "error") => result.err # errCancelled

\* C3: the manifest of a cancelled directory upload names a hash cache.
CancelledUploadKeepsHashCache ==
    (pc = "done" /\ source.kind = "dir" /\ result.kind = "manifest"
       /\ result.IncompleteReason = "cancelled")
      => result.HashCacheID # NullID

\* C4: a directory whose upload is cancelled is still finalized: uploadDirInternal
\* returns its object ID together with the cancellation.
CancelledDirectoryIsFinalized ==
    ret.err = errCancelled => ret.oid # NullID

\* C5: an item reuses the cached object ID exactly when the old hash cache holds
\* an entry for its path with the entry's metadata hash and the roll is not
\* below ForceHashPercentage; with 0 every match is reused, with 100 none is.
CacheReuseRule ==
    Preparing =>
      LET f == Head(stack)
          matches(it) == \E k \in DOMAIN cacheReader.entries :
                            /\ cacheReader.entries[k].name = it.path
                            /\ cacheReader.entries[k].hash = metadataHash(it.entry)
          reused(it) == it.closure = "cached"
      IN  \A i \in DOMAIN f.items :
            LET it == f.items[i]
            IN  /\ reused(it) <=> (matches(it) /\ ~(it.roll < ForceHashPercentage))
                /\ reused(it) =>
                     \E k \in DOMAIN cacheReader.entries :
                        /\ cacheReader.entries[k].name = it.path
                        /\ it.cachedResult.de[1].oid = cacheReader.entries[k].oid
                /\ (ForceHashPercentage = 0 /\ matches(it)) => reused(it)
                /\ ForceHashPercentage = RollRange => ~reused(it)

\* C5 witness: of two entries that both match the old hash cache one is reused
\* and the other is hashed again because the coin fired.
CacheReuseRuleWitness ==
    /\ Preparing
    /\ \E i, j \in DOMAIN Head(stack).items :
          LET a == Head(stack).items[i]
              b == Head(stack).items[j]
          IN  /\ a.closure = "cached"
              /\ b.closure = "file"
              /\ b.roll < ForceHashPercentage
              /\ \E k \in DOMAIN cacheReader.entries :
                    /\ cacheReader.entries[k].name = b.path
                    /\ cacheReader.entries[k].hash = metadataHash(b.entry)

\* C6: every entry WriteEntry has put in the new hash cache
\* is for a file modified strictly before hashCacheCutoff; a consumed item
\* modified at or after the cutoff is in the directory and not in the hash cache.
HashCacheOnlyOldFiles ==
    /\ \A k \in DOMAIN WrittenCacheEntries :
            EntryAt(source.children, WrittenCacheEntries[k].name).mtime < hashCacheCutoff
    /\ Consuming =>
         LET f == Head(stack)
         IN  \A j \in 1..(f.next - 1) :
               LET it == f.items[j]
               IN  (ItemResult(it).err = NoErr /\ it.entry.mtime >= hashCacheCutoff)
                     => /\ \E d \in DOMAIN f.dw : f.dw[d].name = it.entry.name
                        /\ \A k \in DOMAIN WrittenCacheEntries :
                              WrittenCacheEntries[k].name # it.path

\* C6 witness: a file modified exactly at the cutoff has been written to the
\* directory, another entry has gone to the hash cache, the file has not.
HashCacheOnlyOldFilesWitness ==
    /\ Consuming
    /\ WrittenCacheEntries # <<>>
    /\ \E j \in 1..(Head(stack).next - 1) :
          /\ Head(stack).items[j].entry.mtime = hashCacheCutoff
          /\ \E d \in DOMAIN Head(stack).dw :
                Head(stack).dw[d].name = Head(stack).items[j].entry.name

\* counts over the entries of a tree, at every depth
RECURSIVE NumExcluded(_, _), SizeExcluded(_, _), NumFailing(_, _), AllReadableAndOld(_, _)
NumExcluded(entries, i) ==
    IF i > Len(entries) THEN 0
    ELSE (IF entries[i].incl THEN 0 ELSE 1)
         + NumExcluded(entries[i].children, 1) + NumExcluded(entries, i + 1)

SizeExcluded(entries, i) ==
    IF i > Len(entries) THEN 0
    ELSE (IF entries[i].incl THEN 0 ELSE entries[i].size)
         + SizeExcluded(entries[i].children, 1) + SizeExcluded(entries, i + 1)

NumFailing(entries, i) ==
    IF i > Len(entries) THEN 0
    ELSE (IF entries[i].fault = "none" THEN 0 ELSE 1)
         + NumFailing(entries[i].children, 1) + NumFailing(entries, i + 1)

AllReadableAndOld(entries, i) ==
    i > Len(entries)
    \/ (/\ entries[i].fault = "none"
        /\ entries[i].kind \in {"dir", "file", "symlink"}
        /\ entries[i].mtime < hashCacheCutoff
        /\ AllReadableAndOld(entries[i].children, 1)
        /\ AllReadableAndOld(entries, i + 1))

\* C7: the second upload of an unchanged tree whose files can all be read and are
\* all older than the cutoff, given the complete manifest of the first and with
\* ForceHashPercentage = 0, hashes no file and ends with CachedFiles = TotalFileCount.
SecondUploadAllCached ==
    (/\ pc = "done"
     /\ uploads >= 2
     /\ source.kind = "dir"
     /\ ForceHashPercentage = 0
     /\ AllReadableAndOld(source.children, 1)
     /\ old.kind = "manifest"
     /\ old.IncompleteReason = ""
     /\ result.kind = "manifest"
     /\ result.IncompleteReason = "")
      => /\ result.Stats.NonCachedFiles = 0
         /\ result.Stats.CachedFiles = result.Stats.TotalFileCount

\* C8: a failed item is counted in ReadErrors once and skipped when
\* IgnoreFileErrors is set; otherwise its error makes Upload return an error.
FileErrorPolicy ==
    /\ (pc = "done" /\ ret.err = "unable to process") => result.kind = "error"
    /\ stats.ReadErrors <= NumFailing(source.children, 1)
    /\ stats.ReadErrors > 0 => IgnoreFileErrors

\* C9: every entry is counted in one outcome once: the excluded entries of the
\* tree bound ExcludedFileCount and ExcludedTotalFileSize, and the cached and
\* non-cached files add up to TotalFileCount.
StatsCountEachEntryOnce ==
    /\ stats.ExcludedFileCount <= NumExcluded(source.children, 1)
    /\ stats.ExcludedTotalFileSize <= SizeExcluded(source.children, 1)
    /\ stats.CachedFiles + stats.NonCachedFiles = stats.TotalFileCount

\* C10 as stated: no source that is a file, a directory or a symlink is rejected
\* as unsupported.
UploadAcceptsSymlinkSource ==
    (pc = "done" /\ source.kind \in {"file", "dir", "symlink"})
      => ~(result.kind = "error" /\ result.err = "unsupported source")

\* C10 amended: Upload rejects a source as unsupported exactly when it is neither
\* a file nor a directory, and then uploads nothing; a manifest of a file or a
\* directory that is not incomplete carries the root object ID of the source.
UploadAcceptsFileOrDirectory ==
    pc = "done" =>
      /\ (result.kind = "error" /\ result.err = "unsupported source")
            <=> source.kind \notin {"file", "dir"}
      /\ source.kind \notin {"file", "dir"} => (writtenBytes = 0 /\ stats = ZeroStats)
      /\ (result.kind = "manifest" /\ result.IncompleteReason = "")
            => result.RootObjectID =
                  (IF source.kind = "dir" THEN SerialDirID(source.children)
                   ELSE ContentID(<<source.name>>))

\* C10 witness: Upload of a symlink source has returned the unsupported-source error.
UploadAcceptsFileOrDirectoryWitness ==
    /\ pc = "done"
    /\ source.kind = "symlink"
    /\ result.kind = "error"
    /\ result.err = "unsupported source"

\* the reason cancelReason is to give for a flag, a limit and a byte count
ExpectedReason(c, mub, wb) ==
    IF c # 0 THEN "cancelled" ELSE IF mub = 0 \/ wb <= mub THEN "" ELSE "limit reached"

\* C11: IsCancelled holds exactly when Cancel() was called or MaxUploadBytes > 0
\* is exceeded by the written bytes (never with MaxUploadBytes = 0 and no Cancel());
\* once it holds it holds for good, no closure that has copied nothing yet copies
\* anything, and a manifest reports "cancelled" if Cancel() was called, else
\* "limit reached" if the limit is exceeded, else "".
LimitCancelsLikeCancel ==
    /\ [](IsCancelled <=> (cancelled # 0 \/ (MaxUploadBytes > 0 /\ writtenBytes > MaxUploadBytes)))
    /\ []((MaxUploadBytes = 0 /\ cancelled = 0) => ~IsCancelled)
    /\ [][IsCancelled =>
            /\ IsCancelled'
            /\ (mainCopied = 0 => mainCopied' = 0)
            /\ \A w \in DOMAIN pool.workers \cap DOMAIN pool'.workers :
                  pool.workers[w].copied = 0 => pool'.workers[w].copied = 0]_vars
    /\ [][(pc = "finish" /\ pc' = "done") =>
            result'.IncompleteReason = ExpectedReason(cancelled, MaxUploadBytes, writtenBytes)]_vars

\* C11 witness: without Cancel() an upload has ended with the reason "limit reached"
\* and left an item it did not upload.
LimitCancelsLikeCancelWitness ==
    /\ pc = "done"
    /\ cancelled = 0
    /\ result.kind = "manifest"
    /\ result.IncompleteReason = "limit reached"
    /\ \E i \in DOMAIN pool.results : pool.results[i].err = errCancelled

\* the workers that are executing the upload closure of an item
Busy == {w \in DOMAIN pool.workers : pool.workers[w].st = "busy"}

\* C12 as stated: never more than ParallelUploads closures execute concurrently.
AtMostParallelUploadsClosures ==
    Cardinality(Busy) <= ParallelUploads

\* C12 amended: launchWorkItems starts ParallelUploads workers, or two when
\* ParallelUploads is 0; never more closures of the launched items execute
\* concurrently than that number of workers.
PoolOfWorkerCount ==
    LET n == IF ParallelUploads = 0 THEN DefaultWorkerCount ELSE ParallelUploads
    IN  /\ Consuming => Len(pool.workers) = n
        /\ Cardinality(Busy) <= n
        /\ Cardinality(Busy) <= Len(pool.items)

\* C12 witness: with ParallelUploads = 0 two closures execute at the same time.
PoolOfWorkerCountWitness ==
    /\ ParallelUploads = 0
    /\ Cardinality(Busy) = DefaultWorkerCount

\* relative paths compared component by component, a proper prefix first
RECURSIVE PathLess(_, _)
PathLess(p, q) ==
    IF q = <<>> THEN FALSE
    ELSE IF p = <<>> THEN TRUE
    ELSE IF Head(p) # Head(q) THEN Head(p) < Head(q)
    ELSE PathLess(Tail(p), Tail(q))

\* C13: the entries WriteEntry appends to the hash-cache writer are in sorted path
\* order: each path is greater than the path of every entry written before it.
HashCacheWritesSorted ==
    \A i \in DOMAIN WrittenCacheEntries : \A j \in DOMAIN WrittenCacheEntries :
        i < j => PathLess(WrittenCacheEntries[i].name, WrittenCacheEntries[j].name)

\* C14: however the bytes of an object are split into Write calls, the chunks that
\* have left the chunker are the first chunks of a single Write of all the bytes,
\* and Result returns the object ID of that single Write.
WritePartitionInvariant ==
    /\ \A i \in DOMAIN objects : objects[i].oid = WriteWhole(objects[i].data).oid
    /\ writer.st = "open" =>
          /\ Len(writer.w.chunks) <= Len(WriteWhole(writer.data).chunks)
          /\ writer.w.chunks = SubSeq(WriteWhole(writer.data).chunks, 1, Len(writer.w.chunks))
          /\ Len(writer.w.buf) < MaxBlockSize

\* C14 witness: Result has returned the ID of an object of several chunks
\* written in as many Write calls as it has bytes.
WritePartitionInvariantWitness ==
    /\ writer.st = "done"
    /\ writer.writes = Len(writer.data)
    /\ Len(writer.data) > 2 * MaxBlockSize
    /\ Len(objects) = 1
    /\ objects[1].data = writer.data
    /\ objects[1].oid[1] = "I"

\* C15: an object whose ID the caller holds is opened without error, reading it
\* from the start gives the bytes written, and a Seek to any offset followed by a
\* Read of any length within the object gives that slice of the bytes written,
\* the reader standing at the offset asked for.
ReadSeekRoundTrip ==
    \A i \in Live :
        LET B == objects[i].data
            r == Open(Repo, objects[i].oid)
        IN  /\ r.kind = "reader"
            /\ ReadAll(Repo, objects[i].oid) = [err |-> NoErr, data |-> B]
            /\ \A off \in 0..Len(B) : \A len \in 0..(Len(B) - off) :
                   /\ Seek(r, off).pos = off
                   /\ Read(Repo, Seek(r, off), len) =
                          [err |-> NoErr, data |-> SubSeq(B, off + 1, off + len)]

\* C15 witness: a reader is open on an object whose list of chunks is an
\* indirect object itself, while a direct object and an empty one are held too.
ReadSeekRoundTripWitness ==
    /\ opened.kind = "reader"
    /\ opened.oid[1] = "I"
    /\ opened.oid[2][1] = "I"
    /\ \E i \in Live : objects[i].oid = opened.oid /\ objects[i].data = Counting(MaxDataLen)
    /\ \E j \in Live : objects[j].oid[1] = "D" /\ Len(objects[j].data) <= MaxBlockSize

\* every chunk hash held by the pack blobs of the store and by the open pack,
\* once per place it is stored at
StoredAt(h) ==
    {<<p, i>> \in (store.packs \cup {blocks.pack}) \X (1..PackTarget) :
        i <= Len(p) /\ Hash(p[i]) = h}

Fresh == [store |-> store, blocks |-> LoadIndex(store)]

\* C17: once Objects.Flush and Blocks.Flush have followed the Result of an
\* object, every chunk of it, the chunks of its lists included, is found through
\* the index blobs and pack blobs of the store alone: a repository freshly
\* opened on the store opens the object and reads the bytes written.
FlushedIsDurable ==
    \A i \in DOMAIN objects :
        objects[i].flushed =>
            /\ Open(Fresh, objects[i].oid).kind = "reader"
            /\ ReadAll(Fresh, objects[i].oid) = [err |-> NoErr, data |-> objects[i].data]
            /\ \A c \in {WriteWhole(objects[i].data).chunks[k] :
                            k \in DOMAIN WriteWhole(objects[i].data).chunks} :
                   \E x \in store.indexes : \E e \in x :
                       e.hash = Hash(c) /\ e.pack \in store.packs /\ e.pack[e.pos] = c

\* C17 witness: an indirect object was flushed, the repository was reopened
\* while holding an object never flushed, and the flushed object is open again.
FlushedIsDurableWitness ==
    /\ opened.kind = "reader"
    /\ opened.oid[1] = "I"
    /\ \E i \in DOMAIN objects : objects[i].flushed /\ objects[i].oid = opened.oid
    /\ \E j \in DOMAIN objects : objects[j].lost
    /\ blocks.pack = <<>>
    /\ blocks.dirty = {}

\* the objects flushed and not lost are read with their bytes by the repository
\* as the process has it
HeldReadable ==
    \A i \in DOMAIN objects :
        objects[i].flushed =>
            ReadAll(Repo, objects[i].oid) = [err |-> NoErr, data |-> objects[i].data]

Locations(st, h) ==
    {[pack |-> e.pack, pos |-> e.pos] : e \in {x \in UNION st.indexes : x.hash = h}}

IndexedHashes(st) == {e.hash : e \in UNION st.indexes}

\* C19: while input index blobs are being deleted the combined index is in the
\* store, only inputs whose entries it holds are deleted, and no step, a crash
\* between two steps included, changes the location that the index blobs of the
\* store give for a chunk hash: it is one location, in a pack of the store,
\* whichever of the duplicate entries is taken.
CompactionKeepsLocations ==
    /\ [](compaction.st = "deleting" => compaction.combined \in store.indexes)
    /\ [](\A h \in IndexedHashes(store) :
             /\ Cardinality(Locations(store, h)) = 1
             /\ \A l \in Locations(store, h) :
                    l.pack \in store.packs /\ Hash(l.pack[l.pos]) = h)
    /\ [][/\ \A x \in store.indexes \ store'.indexes :
                /\ compaction.st = "deleting"
                /\ x \in compaction.inputs
                /\ x \subseteq compaction.combined
                /\ compaction.combined \in store'.indexes
           /\ \A h \in IndexedHashes(store) :
                Locations(store', h) = Locations(store, h)]_vars

\* C19 witness: a CompactIndexes of two index blobs wrote the combined index and
\* deleted one input, then the process ended: the store holds the other input
\* beside the combined index, and the repository is open on it again.
CompactionKeepsLocationsWitness ==
    /\ ops = <<Opt12.name, "Reopen">>
    /\ Cardinality(store.indexes) = 2
    /\ \E a, b \in store.indexes : a # b /\ a \subseteq b
    /\ opened.kind = "reader"

\* C20: Open of an object ID whose chunk the repository does not have returns the
\* store's block-not-found error itself and no reader, in every state of the
\* repository, and no Open fails with anything else.
OpenUnknownIsBlockNotFound ==
    /\ Open(Repo, UnknownID) = [kind |-> "error", err |-> ErrBlockNotFound]
    /\ \A i \in DOMAIN objects :
          Open(Repo, objects[i].oid).kind = "error" =>
              Open(Repo, objects[i].oid) = [kind |-> "error", err |-> ErrBlockNotFound]
    /\ opened.kind = "error" => opened = [kind |-> "error", err |-> ErrBlockNotFound]

\* C20 witness: the unknown ID was opened on a repository that holds the format
\* block only.
OpenUnknownIsBlockNotFoundWitness ==
    /\ opened.kind = "error"
    /\ BlobCount(store) = 1
    /\ objects = <<>>
    /\ blocks = LoadIndex(EmptyStore)

\* the chunk hash an object ID names: that of the chunk of a direct object, that
\* of the chunk at the bottom of the list of an indirect one
RECURSIVE NamedHash(_)
NamedHash(oid) == IF oid[1] = "D" THEN oid[2] ELSE NamedHash(oid[2])

\* the bytes stored for a chunk hash do not hash to it
Tampered(h) ==
    /\ ~InOpenPack(blocks, h)
    /\ \E e \in blocks.index :
          /\ e.hash = h
          /\ e.pack \in store.packs
          /\ Hash(PackBytes(store, e.pack)[e.pos]) # h

\* C21: when the bytes stored for the chunk an object ID names do not hash to the
\* chunk's ID, Open returns the CorruptData error and no reader; and whichever
\* chunk of an object was overwritten, reading the object whole or in any slice
\* gives the bytes written or that error, never other bytes.
TamperedIsRefused ==
    \A i \in DOMAIN objects :
        LET B == objects[i].data
            oid == objects[i].oid
            r == Open(Repo, oid)
            ok(res, want) == res = [err |-> NoErr, data |-> want]
                             \/ res = [err |-> ErrCorruptData, data |-> <<>>]
        IN  /\ Tampered(NamedHash(oid)) => r = [kind |-> "error", err |-> ErrCorruptData]
            /\ ok(ReadAll(Repo, oid), B)
            /\ (\E c \in {WriteWhole(B).chunks[k] : k \in DOMAIN WriteWhole(B).chunks} :
                    Tampered(Hash(c)))
                  => ReadAll(Repo, oid).err = ErrCorruptData
            /\ r.kind = "reader" =>
                  \A off \in 0..Len(B) : \A len \in 0..(Len(B) - off) :
                      ok(Read(Repo, Seek(r, off), len), SubSeq(B, off + 1, off + len))

\* C21 witness: Open of a direct object whose chunk was overwritten in its pack
\* blob has returned the error.
TamperedIsRefusedWitness ==
    /\ store.overwritten # {}
    /\ opened = [kind |-> "error", err |-> ErrCorruptData]
    /\ \E i \in DOMAIN objects :
          /\ objects[i].oid[1] = "D"
          /\ objects[i].flushed
          /\ Tampered(objects[i].oid[2])

\* C22: in every uploadDirInternal activation the pass over the subdirectories
\* comes first: while it runs, the directory writer holds the dir-entries of
\* the child directories before the current one, each naming the complete
\* listing of the child, in listing order, and no work item of the directory is
\* prepared or executed; afterwards the dir-entries of all child directories
\* are in the directory writer, ahead of every entry of a file or symlink.
SubdirectoriesFirst ==
    \A k \in DOMAIN stack :
        LET f == stack[k]
        IN  /\ k > 1 => (f.phase = "subdirs" /\ f.entries[f.idx].kind = "dir")
            /\ f.phase = "subdirs" =>
                  /\ f.items = <<>>
                  /\ f.dw = SerialSubdirs(SubSeq(f.entries, 1, f.idx - 1), f.path, 1)
                  /\ \A w \in Busy : ParentOf(pool.items[pool.workers[w].item].path) # f.path
            /\ f.phase # "subdirs" =>
                  f.dw = SerialSubdirs(f.entries, f.path, 1) \o SelectSeq(f.dw, IsRegular)

\* C22 witness: the listing holds a file before a subdirectory; the entry of
\* the subdirectory is in the directory writer ahead of the entry of the file.
SubdirectoriesFirstWitness ==
    /\ Consuming
    /\ LET f == Head(stack)
       IN  /\ Len(f.entries) >= 2
           /\ f.entries[1].kind = "file"
           /\ f.entries[2].kind = "dir"
           /\ f.entries[2].children # <<>>
           /\ Len(f.dw) = 2
           /\ f.dw[1].kind = "dir"
           /\ f.dw[2].name = f.entries[1].name

\* the main routine is in one of the passes of foreachEntryUnlessCancelled
InPass == pc = "dir" /\ Head(stack).phase \in {"subdirs", "progress", "prepare"}

\* C23: once IsCancelled holds, a pass that takes a step starts no entry (nothing
\* is counted, looked up, prepared or descended into) and, unless it is the
\* pass of prepareProgress, returns the cancellation error; a copy loop that
\* takes a step copies nothing and returns the cancellation error; and a
\* cancelled result read by processUploadWorkItems is not counted as a read
\* error. In each case uploadDir gets the cancellation error itself from the
\* outermost uploadDirInternal, whatever the nesting level it arose at.
CancelStopsEveryLoop ==
    /\ [][(IsCancelled /\ InPass /\ stack' # stack) =>
            /\ stats' = stats
            /\ cacheReader' = cacheReader
            /\ IF Head(stack).phase = "progress"
               THEN /\ Len(stack') = Len(stack)
                    /\ Head(stack').items = <<>>
                    /\ Head(stack').dw = Head(stack).dw
               ELSE /\ stack' = <<>>
                    /\ ret' = [oid |-> NullID, err |-> errCancelled]]_vars
    /\ [][IsCancelled =>
            /\ writtenBytes' = writtenBytes
            /\ pc = "file" => mainCopied' = mainCopied
            /\ \A w \in Busy :
                  (pool'.workers[w] # pool.workers[w]
                     /\ pool.items[pool.workers[w].item].closure # "cached")
                    => pool'.results[pool.workers[w].item] = ErrResult(errCancelled)
            /\ (pc = "file" /\ pc' # pc) =>
                  result' = [kind |-> "error", err |-> errCancelled]]_vars
    /\ [][(/\ pc = "dir"
           /\ Head(stack).phase = "consume"
           /\ pool.results[Head(stack).next].err = errCancelled
           /\ stack' # stack) =>
            /\ stats' = stats
            /\ cacheWriter' = cacheWriter
            /\ stack' = <<>>
            /\ ret' = [oid |-> NullID, err |-> errCancelled]]_vars

\* C23 witness: with IgnoreFileErrors set, the cancelled result of an item of a
\* subdirectory has made the outermost uploadDirInternal return the
\* cancellation error, no read error is counted, and a worker is still there.
CancelStopsEveryLoopWitness ==
    /\ pc = "uploadDirTail"
    /\ ret.err = errCancelled
    /\ cancelled # 0
    /\ IgnoreFileErrors
    /\ stats.ReadErrors = 0
    /\ pool.items # <<>>
    /\ Len(pool.items[1].path) = 2
    /\ \E w \in DOMAIN pool.workers : pool.workers[w].st # "exited"

\* C24: the cancel flag, once set, is set in every later state, and so IsCancelled
\* holds there; in particular an Upload that follows an Upload whose manifest
\* has the reason "cancelled" runs with the flag set from its first step.
CancelFlagIsMonotonic ==
    /\ [][cancelled # 0 => (cancelled' = cancelled /\ IsCancelled')]_vars
    /\ []((old.kind = "manifest" /\ old.IncompleteReason = "cancelled") => IsCancelled)

\* C24 witness: the second Upload of the Uploader is in a directory pass, and the
\* first one was cancelled.
CancelFlagIsMonotonicWitness ==
    /\ uploads = 2
    /\ pc = "dir"
    /\ stack # <<>>
    /\ old.kind = "manifest"
    /\ old.IncompleteReason = "cancelled"
    /\ cancelled = 1

\* the main routine is inside processUploadWorkItems
InProcessUploadWorkItems == pc = "dir" /\ Head(stack).phase \in {"consume", "wait"}

\* C25: processUploadWorkItems returns; the feeder has sent every item and every
\* worker has left its loop at some later point, also when the main routine
\* returned without waiting; and the result channel of the item a worker runs
\* is empty, so that its send does not block.
WorkItemsTerminate ==
    /\ InProcessUploadWorkItems ~> ~InProcessUploadWorkItems
    /\ (pool.workers # <<>>) ~> (PoolQuiet /\ pool.feedNext > Len(pool.items))
    /\ [](\A w \in Busy : pool.results[pool.workers[w].item] = NoResult)

\* C25 witness: the main routine has returned the cancellation error, every
\* worker has left its loop, and an item it never read the result of has been
\* run to its end.
WorkItemsTerminateWitness ==
    /\ pc = "done"
    /\ result = [kind |-> "error", err |-> errCancelled] \/ result.kind = "manifest"
    /\ cancelled # 0
    /\ pool.workers # <<>>
    /\ PoolQuiet
    /\ \E i \in DOMAIN pool.results : pool.results[i] # NoResult

\* the workers that run the closure of the i-th item
RunningItem(i) == {w \in Busy : pool.workers[w].item = i}

\* C26: an item is run by one worker at most, and only after the feeder sent it;
\* while it runs, and once the main routine has read its result, its result
\* channel holds nothing, so the closure of a finished item is not run again
\* and its result is not read again; the directory writer has one entry per
\* name at most, and no more entries of files and symlinks than results read.
OneWorkerOneResultPerItem ==
    /\ \A i \in DOMAIN pool.items :
          /\ Cardinality(RunningItem(i)) <= 1
          /\ RunningItem(i) # {} => (i < pool.feedNext /\ pool.results[i] = NoResult)
          /\ pool.results[i] # NoResult => i < pool.feedNext
    /\ InProcessUploadWorkItems =>
          LET f == Head(stack)
          IN  /\ \A i \in 1..(f.next - 1) :
                    /\ i < pool.feedNext
                    /\ RunningItem(i) = {}
                    /\ pool.results[i] = NoResult
              /\ Len(SelectSeq(f.dw, IsRegular)) <= f.next - 1
    /\ \A k \in DOMAIN stack :
          \A i, j \in DOMAIN stack[k].dw :
              stack[k].dw[i].name = stack[k].dw[j].name => i = j

\* C26 witness: with two workers and two items, the result of the first item
\* has been read and written to the directory writer while the second runs.
OneWorkerOneResultPerItemWitness ==
    /\ InProcessUploadWorkItems
    /\ Len(pool.workers) = 2
    /\ Len(pool.items) = 2
    /\ Head(stack).next = 2
    /\ Len(SelectSeq(Head(stack).dw, IsRegular)) = 1
    /\ RunningItem(2) # {}

\* C27: a hash-cache ID that uploadDir returns is the Result() of a hash-cache
\* object whose writer had been finalized when the Result() was taken.
HashCacheFinalizedBeforeResult ==
    s.HashCacheID # NullID => s.HashCacheID[3]

====
